---- MODULE Spec2Model ----
(***************************************************************************)
(* Model of the payment engine: the ledger of deposits and withdrawals     *)
(* (PaymentEngine.transactions), the account registry                      *)
(* (PaymentEngine.accounts) and PaymentEngine::insert, which applies one   *)
(* record to both.  Amounts are rust_decimal values of scale <= 4; they    *)
(* are modelled by their integer mantissa at scale 4 (1 == 0.0001), on     *)
(* which +=, -=, < and == of Decimal are exact integer operations.  The    *)
(* amounts of the model stay far below Decimal::MAX, so the panic on       *)
(* overflow of += and -= is not reached.                                   *)
(***************************************************************************)
EXTENDS Integers, FiniteSets, Sequences, TLC

\* Bounds of the model.
NumClients == 2
MaxTx == 2
MaxAmount == 2

Clients == 1..NumClients
TxIds == 1..MaxTx
Amounts == 0..MaxAmount

\* Option<Amount>: None is the empty set, Some(a) the singleton.
None == {}
Some(a) == {a}
unwrap(o) == CHOOSE a \in o : TRUE

Variants == {"Deposit", "Withdrawal", "Dispute", "Resolve", "Chargeback"}

\* The struct Transaction as deserialization builds it: disputed and
\* chargeback are skipped by serde and start false.
Transaction(variant, client, tx, amount) ==
    [variant |-> variant, client |-> client, tx |-> tx, amount |-> amount,
     disputed |-> FALSE, chargeback |-> FALSE]

\* Mutant of Transaction::is_valid: every variant is asked for an amount.
is_valid_AmountPresent(t) == t.amount # None

\* Transaction::is_valid
is_valid(t) ==
    IF t.variant \in {"Deposit", "Withdrawal"}
    THEN t.amount # None
    ELSE t.amount = None

\* Account::new
AccountNew(client) ==
    [client |-> client, available |-> 0, held |-> 0, total |-> 0, locked |-> FALSE]

\* Mutant of Account::deposit: total is not raised.
deposit_OnlyAvailable(a, amount) ==
    [a EXCEPT !.available = @ + amount]

\* Account::deposit
deposit(a, amount) ==
    [a EXCEPT !.available = @ + amount, !.total = @ + amount]

\* Mutants of Account::withdraw: no funds check; a check that also rejects
\* a withdrawal of exactly the available funds.
withdraw_NoFundsCheck(a, amount) ==
    [account |-> [a EXCEPT !.available = @ - amount, !.total = @ - amount],
     result |-> "Ok"]

withdraw_StrictCheck(a, amount) ==
    IF a.available <= amount
    THEN [account |-> a, result |-> "InsufficientFunds"]
    ELSE [account |-> [a EXCEPT !.available = @ - amount, !.total = @ - amount],
          result |-> "Ok"]

\* Mutant of Account::withdraw: the funds are taken before the check that
\* rejects the withdrawal.
withdraw_DebitsBeforeCheck(a, amount) ==
    LET b == [a EXCEPT !.available = @ - amount, !.total = @ - amount]
    IN  IF b.available < 0
        THEN [account |-> b, result |-> "InsufficientFunds"]
        ELSE [account |-> b, result |-> "Ok"]

\* Account::withdraw
withdraw(a, amount) ==
    IF a.available < amount
    THEN [account |-> a, result |-> "InsufficientFunds"]
    ELSE [account |-> [a EXCEPT !.available = @ - amount, !.total = @ - amount],
          result |-> "Ok"]

\* Mutant of Account::dispute: the dispute already locks the account.
dispute_Locks(a, amount) ==
    [a EXCEPT !.available = @ - amount, !.held = @ + amount, !.locked = TRUE]

\* Account::dispute
dispute(a, amount) ==
    [a EXCEPT !.available = @ - amount, !.held = @ + amount]

\* Mutant of Account::resolve: the held funds are not released.
resolve_KeepsHeld(a, amount) ==
    [a EXCEPT !.available = @ + amount]

\* Account::resolve
resolve(a, amount) ==
    [a EXCEPT !.available = @ + amount, !.held = @ - amount]

\* Mutant of Account::chargeback: the held funds are not removed.
chargeback_KeepsHeld(a, amount) ==
    [a EXCEPT !.total = @ - amount, !.locked = TRUE]

\* Mutant of Account::chargeback: the amount is taken from available, not
\* from total.
chargeback_DebitsAvailable(a, amount) ==
    [a EXCEPT !.available = @ - amount, !.held = @ - amount, !.locked = TRUE]

\* Mutant of Account::chargeback: the account is not locked.
chargeback_NoLock(a, amount) ==
    [a EXCEPT !.total = @ - amount, !.held = @ - amount]

\* Account::chargeback
chargeback(a, amount) ==
    [a EXCEPT !.total = @ - amount, !.held = @ - amount, !.locked = TRUE]

\* Mutants of Account::transaction: no lock check; a lock check that guards
\* withdrawals only.
AccountTransaction_NoLockCheck(a, variant, amount) ==
    CASE variant = "Deposit" -> [account |-> deposit(a, amount), result |-> "Ok"]
      [] variant = "Withdrawal" -> withdraw(a, amount)
      [] variant = "Dispute" -> [account |-> dispute(a, amount), result |-> "Ok"]
      [] variant = "Resolve" -> [account |-> resolve(a, amount), result |-> "Ok"]
      [] variant = "Chargeback" -> [account |-> chargeback(a, amount), result |-> "Ok"]

AccountTransaction_LockGuardsWithdrawalOnly(a, variant, amount) ==
    IF a.locked /\ variant = "Withdrawal"
    THEN [account |-> a, result |-> "LockedAccount"]
    ELSE AccountTransaction_NoLockCheck(a, variant, amount)

\* Account::transaction.  The account is a &mut self: what the method has
\* assigned before it returns an error stays assigned, so the callers keep
\* the account it yields on both paths.
AccountTransaction(a, variant, amount) ==
    IF a.locked
    THEN [account |-> a, result |-> "LockedAccount"]
    ELSE CASE variant = "Deposit" -> [account |-> deposit(a, amount), result |-> "Ok"]
           [] variant = "Withdrawal" -> withdraw(a, amount)
           [] variant = "Dispute" -> [account |-> dispute(a, amount), result |-> "Ok"]
           [] variant = "Resolve" -> [account |-> resolve(a, amount), result |-> "Ok"]
           [] variant = "Chargeback" -> [account |-> chargeback(a, amount), result |-> "Ok"]

\* HashMap::entry(k).or_insert_with(..) and HashMap::insert on a map
\* modelled as a function on the set of its keys.
MapPut(m, k, v) == [x \in (DOMAIN m) \cup {k} |-> IF x = k THEN v ELSE m[x]]

\* self.accounts.entry(tx.client).or_insert_with(|| Account::new(tx.client))
EntryOrInsert(accts, client) ==
    IF client \in DOMAIN accts THEN accts ELSE MapPut(accts, client, AccountNew(client))

\* Mutant of the Deposit | Withdrawal arm: an existing transaction is
\* overwritten.
InsertDepositWithdrawal_NoDuplicateCheck(txs, accts, tx) ==
    LET r == AccountTransaction(accts[tx.client], tx.variant, unwrap(tx.amount))
    IN  IF r.result # "Ok"
        THEN [transactions |-> txs,
              accounts |-> [accts EXCEPT ![tx.client] = r.account],
              result |-> r.result]
        ELSE [transactions |-> MapPut(txs, tx.tx, tx),
              accounts |-> [accts EXCEPT ![tx.client] = r.account],
              result |-> "Ok"]

\* Mutant of the Deposit | Withdrawal arm: the record is stored before the
\* account has accepted it.
InsertDepositWithdrawal_StoresRejected(txs, accts, tx) ==
    IF tx.tx \in DOMAIN txs
    THEN [transactions |-> txs, accounts |-> accts, result |-> "TransactionAlreadyExist"]
    ELSE LET r == AccountTransaction(accts[tx.client], tx.variant, unwrap(tx.amount))
         IN  IF r.result # "Ok"
             THEN [transactions |-> MapPut(txs, tx.tx, tx),
                   accounts |-> [accts EXCEPT ![tx.client] = r.account],
                   result |-> r.result]
             ELSE [transactions |-> MapPut(txs, tx.tx, tx),
                   accounts |-> [accts EXCEPT ![tx.client] = r.account],
                   result |-> "Ok"]

\* The Deposit | Withdrawal arm of PaymentEngine::insert
InsertDepositWithdrawal(txs, accts, tx) ==
    IF tx.tx \in DOMAIN txs
    THEN [transactions |-> txs, accounts |-> accts, result |-> "TransactionAlreadyExist"]
    ELSE LET r == AccountTransaction(accts[tx.client], tx.variant, unwrap(tx.amount))
         IN  IF r.result # "Ok"
             THEN [transactions |-> txs,
                   accounts |-> [accts EXCEPT ![tx.client] = r.account],
                   result |-> r.result]
             ELSE [transactions |-> MapPut(txs, tx.tx, tx),
                   accounts |-> [accts EXCEPT ![tx.client] = r.account],
                   result |-> "Ok"]

\* Mutants of the Dispute arm: no comparison of the clients; the entry is
\* marked disputed before the account accepts the dispute.
InsertDispute_NoOwnerCheck(txs, accts, tx) ==
    IF tx.tx \notin DOMAIN txs
    THEN [transactions |-> txs, accounts |-> accts, result |-> "TransactionNotFound"]
    ELSE IF txs[tx.tx].disputed
    THEN [transactions |-> txs, accounts |-> accts, result |-> "AlreadyDisputed"]
    ELSE LET r == AccountTransaction(accts[tx.client], tx.variant, unwrap(txs[tx.tx].amount))
         IN  IF r.result # "Ok"
             THEN [transactions |-> txs,
                   accounts |-> [accts EXCEPT ![tx.client] = r.account],
                   result |-> r.result]
             ELSE [transactions |-> [txs EXCEPT ![tx.tx].disputed = TRUE],
                   accounts |-> [accts EXCEPT ![tx.client] = r.account],
                   result |-> "Ok"]

InsertDispute_FlagBeforeAccount(txs, accts, tx) ==
    IF tx.tx \notin DOMAIN txs
    THEN [transactions |-> txs, accounts |-> accts, result |-> "TransactionNotFound"]
    ELSE IF txs[tx.tx].client # tx.client
    THEN [transactions |-> txs, accounts |-> accts, result |-> "TransactionNotFound"]
    ELSE IF txs[tx.tx].disputed
    THEN [transactions |-> txs, accounts |-> accts, result |-> "AlreadyDisputed"]
    ELSE LET r == AccountTransaction(accts[tx.client], tx.variant, unwrap(txs[tx.tx].amount))
             flagged == [txs EXCEPT ![tx.tx].disputed = TRUE]
         IN  IF r.result # "Ok"
             THEN [transactions |-> flagged,
                   accounts |-> [accts EXCEPT ![tx.client] = r.account],
                   result |-> r.result]
             ELSE [transactions |-> flagged,
                   accounts |-> [accts EXCEPT ![tx.client] = r.account],
                   result |-> "Ok"]

\* Mutant of the Dispute arm: an amount on the Dispute record is used in
\* place of the stored one.
InsertDispute_UsesRecordAmount(txs, accts, tx) ==
    IF tx.tx \notin DOMAIN txs
    THEN [transactions |-> txs, accounts |-> accts, result |-> "TransactionNotFound"]
    ELSE IF txs[tx.tx].client # tx.client
    THEN [transactions |-> txs, accounts |-> accts, result |-> "TransactionNotFound"]
    ELSE IF txs[tx.tx].disputed
    THEN [transactions |-> txs, accounts |-> accts, result |-> "AlreadyDisputed"]
    ELSE LET amount == IF tx.amount # None THEN unwrap(tx.amount)
                       ELSE unwrap(txs[tx.tx].amount)
             r == AccountTransaction(accts[tx.client], tx.variant, amount)
         IN  IF r.result # "Ok"
             THEN [transactions |-> txs,
                   accounts |-> [accts EXCEPT ![tx.client] = r.account],
                   result |-> r.result]
             ELSE [transactions |-> [txs EXCEPT ![tx.tx].disputed = TRUE],
                   accounts |-> [accts EXCEPT ![tx.client] = r.account],
                   result |-> "Ok"]

\* Mutant of the Dispute arm: an entry may be disputed again while it is
\* in dispute.
InsertDispute_NoAlreadyDisputedCheck(txs, accts, tx) ==
    IF tx.tx \notin DOMAIN txs
    THEN [transactions |-> txs, accounts |-> accts, result |-> "TransactionNotFound"]
    ELSE IF txs[tx.tx].client # tx.client
    THEN [transactions |-> txs, accounts |-> accts, result |-> "TransactionNotFound"]
    ELSE LET r == AccountTransaction(accts[tx.client], tx.variant, unwrap(txs[tx.tx].amount))
         IN  IF r.result # "Ok"
             THEN [transactions |-> txs,
                   accounts |-> [accts EXCEPT ![tx.client] = r.account],
                   result |-> r.result]
             ELSE [transactions |-> [txs EXCEPT ![tx.tx].disputed = TRUE],
                   accounts |-> [accts EXCEPT ![tx.client] = r.account],
                   result |-> "Ok"]

\* The Dispute arm of PaymentEngine::insert
InsertDispute(txs, accts, tx) ==
    IF tx.tx \notin DOMAIN txs
    THEN [transactions |-> txs, accounts |-> accts, result |-> "TransactionNotFound"]
    ELSE IF txs[tx.tx].client # tx.client
    THEN [transactions |-> txs, accounts |-> accts, result |-> "TransactionNotFound"]
    ELSE IF txs[tx.tx].disputed
    THEN [transactions |-> txs, accounts |-> accts, result |-> "AlreadyDisputed"]
    ELSE LET r == AccountTransaction(accts[tx.client], tx.variant, unwrap(txs[tx.tx].amount))
         IN  IF r.result # "Ok"
             THEN [transactions |-> txs,
                   accounts |-> [accts EXCEPT ![tx.client] = r.account],
                   result |-> r.result]
             ELSE [transactions |-> [txs EXCEPT ![tx.tx].disputed = TRUE],
                   accounts |-> [accts EXCEPT ![tx.client] = r.account],
                   result |-> "Ok"]

\* Mutant of the Resolve | Chargeback arm: no check that the entry is
\* disputed.
InsertResolveChargeback_NoDisputedCheck(txs, accts, tx) ==
    IF tx.tx \notin DOMAIN txs
    THEN [transactions |-> txs, accounts |-> accts, result |-> "TransactionNotFound"]
    ELSE IF txs[tx.tx].client # tx.client
    THEN [transactions |-> txs, accounts |-> accts, result |-> "TransactionNotFound"]
    ELSE LET r == AccountTransaction(accts[tx.client], tx.variant, unwrap(txs[tx.tx].amount))
         IN  IF r.result # "Ok"
             THEN [transactions |-> txs,
                   accounts |-> [accts EXCEPT ![tx.client] = r.account],
                   result |-> r.result]
             ELSE [transactions |-> [txs EXCEPT ![tx.tx].disputed = FALSE],
                   accounts |-> [accts EXCEPT ![tx.client] = r.account],
                   result |-> "Ok"]

\* Mutants of the Resolve | Chargeback arm: a Chargeback leaves the entry
\* marked disputed; no comparison of the clients.
InsertResolveChargeback_ChargebackKeepsFlag(txs, accts, tx) ==
    IF tx.tx \notin DOMAIN txs
    THEN [transactions |-> txs, accounts |-> accts, result |-> "TransactionNotFound"]
    ELSE IF txs[tx.tx].client # tx.client
    THEN [transactions |-> txs, accounts |-> accts, result |-> "TransactionNotFound"]
    ELSE IF ~txs[tx.tx].disputed
    THEN [transactions |-> txs, accounts |-> accts, result |-> "NotDisputed"]
    ELSE LET r == AccountTransaction(accts[tx.client], tx.variant, unwrap(txs[tx.tx].amount))
         IN  IF r.result # "Ok"
             THEN [transactions |-> txs,
                   accounts |-> [accts EXCEPT ![tx.client] = r.account],
                   result |-> r.result]
             ELSE [transactions |-> [txs EXCEPT ![tx.tx].disputed = (tx.variant = "Chargeback")],
                   accounts |-> [accts EXCEPT ![tx.client] = r.account],
                   result |-> "Ok"]

InsertResolveChargeback_NoOwnerCheck(txs, accts, tx) ==
    IF tx.tx \notin DOMAIN txs
    THEN [transactions |-> txs, accounts |-> accts, result |-> "TransactionNotFound"]
    ELSE IF ~txs[tx.tx].disputed
    THEN [transactions |-> txs, accounts |-> accts, result |-> "NotDisputed"]
    ELSE LET r == AccountTransaction(accts[tx.client], tx.variant, unwrap(txs[tx.tx].amount))
         IN  IF r.result # "Ok"
             THEN [transactions |-> txs,
                   accounts |-> [accts EXCEPT ![tx.client] = r.account],
                   result |-> r.result]
             ELSE [transactions |-> [txs EXCEPT ![tx.tx].disputed = FALSE],
                   accounts |-> [accts EXCEPT ![tx.client] = r.account],
                   result |-> "Ok"]

\* The Resolve | Chargeback arm of PaymentEngine::insert
InsertResolveChargeback(txs, accts, tx) ==
    IF tx.tx \notin DOMAIN txs
    THEN [transactions |-> txs, accounts |-> accts, result |-> "TransactionNotFound"]
    ELSE IF txs[tx.tx].client # tx.client
    THEN [transactions |-> txs, accounts |-> accts, result |-> "TransactionNotFound"]
    ELSE IF ~txs[tx.tx].disputed
    THEN [transactions |-> txs, accounts |-> accts, result |-> "NotDisputed"]
    ELSE LET r == AccountTransaction(accts[tx.client], tx.variant, unwrap(txs[tx.tx].amount))
         IN  IF r.result # "Ok"
             THEN [transactions |-> txs,
                   accounts |-> [accts EXCEPT ![tx.client] = r.account],
                   result |-> r.result]
             ELSE [transactions |-> [txs EXCEPT ![tx.tx].disputed = FALSE],
                   accounts |-> [accts EXCEPT ![tx.client] = r.account],
                   result |-> "Ok"]

\* Mutant of PaymentEngine::insert: the account of a new client is kept
\* only when the call returns Ok.
insert_NoAccountOnError(eng, tx) ==
    LET accts == EntryOrInsert(eng.accounts, tx.client)
        o == CASE tx.variant \in {"Deposit", "Withdrawal"} ->
                    InsertDepositWithdrawal(eng.transactions, accts, tx)
               [] tx.variant = "Dispute" ->
                    InsertDispute(eng.transactions, accts, tx)
               [] tx.variant \in {"Resolve", "Chargeback"} ->
                    InsertResolveChargeback(eng.transactions, accts, tx)
    IN  IF o.result = "Ok" THEN o ELSE [o EXCEPT !.accounts = eng.accounts]

\* PaymentEngine::insert as a function of the engine and the record: the
\* engine after the call and the value returned.
insert(eng, tx) ==
    LET accts == EntryOrInsert(eng.accounts, tx.client)
    IN  CASE tx.variant \in {"Deposit", "Withdrawal"} ->
                InsertDepositWithdrawal(eng.transactions, accts, tx)
          [] tx.variant = "Dispute" ->
                InsertDispute(eng.transactions, accts, tx)
          [] tx.variant \in {"Resolve", "Chargeback"} ->
                InsertResolveChargeback(eng.transactions, accts, tx)

VARIABLES
    transactions,   \* PaymentEngine.transactions: HashMap<u32, Transaction>
    accounts,       \* PaymentEngine.accounts: HashMap<u16, Account>
    last,           \* the last record passed to insert and what insert returned
    chargedback,    \* the transaction ids for which a Chargeback returned Ok
    run_state,      \* run(): where it is, what it returned, the rows it wrote
    row             \* run(): the last row read and what became of it

vars == <<transactions, accounts, last, chargedback, run_state, row>>

engine == [transactions |-> transactions, accounts |-> accounts]

\* The empty map.
EmptyMap == [x \in {} |-> 0]

\* PaymentEngine::default(): both maps empty, no call made yet.
Init ==
    /\ transactions = EmptyMap
    /\ accounts = EmptyMap
    /\ last = [tx |-> Transaction("Deposit", 1, 1, None), result |-> "NoCall"]
    /\ chargedback = {}
    /\ run_state = [pc |-> "reading", result |-> "None", output |-> {}]
    /\ row = [tx |-> Transaction("Deposit", 1, 1, None), outcome |-> "NoRow"]

\* One call engine.insert(tx).
Call(tx) ==
    LET r == insert(engine, tx)
    IN  /\ transactions' = r.transactions
        /\ accounts' = r.accounts
        /\ last' = [tx |-> tx, result |-> r.result]
        /\ chargedback' = IF tx.variant = "Chargeback" /\ r.result = "Ok"
                          THEN chargedback \cup {tx.tx}
                          ELSE chargedback

\* The amount column of a Dispute, Resolve or Chargeback record: insert
\* never reads it, so a caller of the public insert may pass either.
AmountOptions == {None, Some(MaxAmount)}

Deposit ==
    \E c \in Clients, t \in TxIds, a \in Amounts :
        Call(Transaction("Deposit", c, t, Some(a))) /\ UNCHANGED <<run_state, row>>

Withdrawal ==
    \E c \in Clients, t \in TxIds, a \in Amounts :
        Call(Transaction("Withdrawal", c, t, Some(a))) /\ UNCHANGED <<run_state, row>>

Dispute ==
    \E c \in Clients, t \in TxIds, o \in AmountOptions :
        Call(Transaction("Dispute", c, t, o)) /\ UNCHANGED <<run_state, row>>

Resolve ==
    \E c \in Clients, t \in TxIds, o \in AmountOptions :
        Call(Transaction("Resolve", c, t, o)) /\ UNCHANGED <<run_state, row>>

Chargeback ==
    \E c \in Clients, t \in TxIds, o \in AmountOptions :
        Call(Transaction("Chargeback", c, t, o)) /\ UNCHANGED <<run_state, row>>

Next == Deposit \/ Withdrawal \/ Dispute \/ Resolve \/ Chargeback

Spec == Init /\ [][Next]_vars

\* Every record a caller can pass to insert without the unwrap of a missing
\* amount panicking.
Records ==
    {Transaction(v, c, t, Some(a)) : v \in {"Deposit", "Withdrawal"}, c \in Clients,
                                     t \in TxIds, a \in Amounts}
    \cup {Transaction(v, c, t, o) : v \in {"Dispute", "Resolve", "Chargeback"},
                                    c \in Clients, t \in TxIds, o \in AmountOptions}

(***************************************************************************)
(* The driver run(): it reads the rows of the input one at a time, skips   *)
(* the rows that are not valid, passes the others to insert, stops at the  *)
(* first error that is not TransactionNotFound, and at the end of the      *)
(* input writes one row per account.                                       *)
(***************************************************************************)

\* The rows the reader can deserialize: every variant with and without an
\* amount.
Rows ==
    Records \cup {Transaction(v, c, t, None) : v \in {"Deposit", "Withdrawal"},
                                             c \in Clients, t \in TxIds}

\* Mutants of the match on the result of insert: NotDisputed is ignored
\* like TransactionNotFound; no error is ignored.
Benign_IgnoresNotDisputed(result) ==
    result \in {"Ok", "TransactionNotFound", "NotDisputed"}

Benign_IgnoresNothing(result) == result = "Ok"

\* The match on the result of insert: Ok and TransactionNotFound let the
\* loop go on, any other error is returned.
Benign(result) == result \in {"Ok", "TransactionNotFound"}

\* A row that is not valid: `continue`.
RunSkip ==
    \E tx \in Rows :
        /\ run_state.pc = "reading"
        /\ ~is_valid(tx)
        /\ row' = [tx |-> tx, outcome |-> "Skipped"]
        /\ UNCHANGED <<transactions, accounts, last, chargedback, run_state>>

\* A valid row: engine.insert(tx), then the match on its result.
RunInsert ==
    \E tx \in Rows :
        /\ run_state.pc = "reading"
        /\ is_valid(tx)
        /\ Call(tx)
        /\ LET res == insert(engine, tx).result
           IN  /\ row' = [tx |-> tx, outcome |-> res]
               /\ run_state' = IF Benign(res)
                               THEN run_state
                               ELSE [pc |-> "returned", result |-> res, output |-> {}]

\* A row the reader cannot deserialize (`result?`): run returns the
\* reader's error.
RunReadError ==
    /\ run_state.pc = "reading"
    /\ run_state' = [pc |-> "returned", result |-> "CsvError", output |-> {}]
    /\ row' = [row EXCEPT !.outcome = "ReadError"]
    /\ UNCHANGED <<transactions, accounts, last, chargedback>>

\* The end of the input: one row per account is written, in the order of
\* the map's values, and run returns Ok.
RunFinish ==
    /\ run_state.pc = "reading"
    /\ run_state' = [pc |-> "returned", result |-> "Ok",
                     output |-> {accounts[c] : c \in DOMAIN accounts}]
    /\ UNCHANGED <<transactions, accounts, last, chargedback, row>>

NextRun == RunSkip \/ RunInsert \/ RunReadError \/ RunFinish

SpecRun == Init /\ [][NextRun]_vars

\* The account of client c as insert sees it after entry().or_insert_with().
AccountOf(c) == EntryOrInsert(accounts, c)[c]

\* The engine a call leaves behind.
EngineAfter(o) == [transactions |-> o.transactions, accounts |-> o.accounts]

\* A call that returned an error and, at most, created the account of the
\* record's client: the ledger and every account that existed are as before.
OnlyCreatedAccount(o, c) ==
    /\ o.transactions = transactions
    /\ DOMAIN o.accounts = (DOMAIN accounts) \cup {c}
    /\ \A d \in DOMAIN accounts : o.accounts[d] = accounts[d]
    /\ c \notin DOMAIN accounts => o.accounts[c] = AccountNew(c)

LastOk(variant) == last.result = "Ok" /\ last.tx.variant = variant

(***************************************************************************)
(* C1: after any sequence of calls of insert, whatever each returned,      *)
(* every account of the registry has total = available + held.            *)
(***************************************************************************)
C1_TotalIsAvailablePlusHeld ==
    \A c \in DOMAIN accounts :
        accounts[c].total = accounts[c].available + accounts[c].held

\* An account with funds both available and held, right after a call that
\* returned an error.
C1_Witness ==
    /\ last.result = "AlreadyDisputed"
    /\ accounts[last.tx.client].held > 0
    /\ accounts[last.tx.client].available > 0

(***************************************************************************)
(* C2 as stated: after any sequence of well-formed records every account's *)
(* available is >= 0.                                                      *)
(***************************************************************************)
C2_AvailableNonnegative ==
    \A c \in DOMAIN accounts : accounts[c].available >= 0

(***************************************************************************)
(* C2 as amended: an account's available is >= 0 unless the account has    *)
(* funds held in dispute or is locked; a Dispute of an entry whose funds   *)
(* were withdrawn does drive available below zero.                        *)
(***************************************************************************)
C2_AvailableNegativeOnlyInDispute ==
    \A c \in DOMAIN accounts :
        accounts[c].available < 0 => (accounts[c].held > 0 \/ accounts[c].locked)

\* A Dispute that returned Ok and left its client's available negative.
C2_Witness ==
    /\ LastOk("Dispute")
    /\ accounts[last.tx.client].available < 0

(***************************************************************************)
(* C3: after any sequence of well-formed records every account's held is   *)
(* >= 0.                                                                   *)
(***************************************************************************)
C3_HeldNonnegative ==
    \A c \in DOMAIN accounts : accounts[c].held >= 0

\* A Chargeback that returned Ok while another entry of the client is
\* still in dispute.
C3_Witness ==
    /\ LastOk("Chargeback")
    /\ accounts[last.tx.client].held > 0

\* The records carrying client id c.
RecordsOf(c) == {r \in Records : r.client = c}

Locked(c) == c \in DOMAIN accounts /\ accounts[c].locked

\* What insert decides from the ledger alone, before the account is asked:
\* the error of the ledger checks of the record's arm, or "Pass".
LedgerCheck(r) ==
    CASE r.variant \in {"Deposit", "Withdrawal"} ->
            IF r.tx \in DOMAIN transactions THEN "TransactionAlreadyExist" ELSE "Pass"
      [] r.variant = "Dispute" ->
            IF r.tx \notin DOMAIN transactions THEN "TransactionNotFound"
            ELSE IF transactions[r.tx].client # r.client THEN "TransactionNotFound"
            ELSE IF transactions[r.tx].disputed THEN "AlreadyDisputed"
            ELSE "Pass"
      [] r.variant \in {"Resolve", "Chargeback"} ->
            IF r.tx \notin DOMAIN transactions THEN "TransactionNotFound"
            ELSE IF transactions[r.tx].client # r.client THEN "TransactionNotFound"
            ELSE IF ~transactions[r.tx].disputed THEN "NotDisputed"
            ELSE "Pass"

(***************************************************************************)
(* C4 as stated: once an account is locked, every record for that client,  *)
(* of any variant and with any transaction id, fails with exactly          *)
(* LockedAccount.                                                          *)
(***************************************************************************)
C4_LockedAlwaysLockedAccount ==
    \A c \in Clients : Locked(c) =>
        \A r \in RecordsOf(c) : insert(engine, r).result = "LockedAccount"

(***************************************************************************)
(* C4 as amended: once an account is locked, no record for that client     *)
(* returns Ok; the ledger entry is consulted first, so the record fails    *)
(* with LockedAccount exactly when the ledger checks of its arm pass (a    *)
(* Deposit or Withdrawal with an unused transaction id, a Dispute of the   *)
(* client's own undisputed entry, a Resolve or Chargeback of its own       *)
(* disputed entry) and otherwise with the error of the ledger check:       *)
(* TransactionAlreadyExist, TransactionNotFound, AlreadyDisputed or        *)
(* NotDisputed.                                                            *)
(***************************************************************************)
C4_LockedNeverOkLedgerFirst ==
    \A c \in Clients : Locked(c) =>
        \A r \in RecordsOf(c) :
            LET res == insert(engine, r).result
            IN  /\ res # "Ok"
                /\ res = IF LedgerCheck(r) = "Pass" THEN "LockedAccount" ELSE LedgerCheck(r)

\* A Resolve of the locked client's own entry, still in dispute, was
\* rejected with LockedAccount.
C4_Witness ==
    /\ last.result = "LockedAccount"
    /\ last.tx.variant = "Resolve"
    /\ Locked(last.tx.client)
    /\ transactions[last.tx.tx].disputed

(***************************************************************************)
(* C5: once an account is locked, no later call of insert, of any variant  *)
(* and for any client, changes its available, held, total or locked.       *)
(***************************************************************************)
C5_LockedAccountFrozen ==
    [][\A c \in DOMAIN accounts : accounts[c].locked => accounts'[c] = accounts[c]]_vars

\* A Chargeback of a second disputed entry of a locked client was rejected,
\* and the account still holds that entry's funds.
C5_Witness ==
    /\ last.result = "LockedAccount"
    /\ last.tx.variant = "Chargeback"
    /\ Locked(last.tx.client)
    /\ accounts[last.tx.client].held > 0

(***************************************************************************)
(* C6: in every reachable state, for every undisputed ledger entry whose   *)
(* owner is not locked, a Dispute and then a Resolve of it by the owner    *)
(* both return Ok and leave the owner's available, held and total as they  *)
(* were before the Dispute, locked false and the entry undisputed.         *)
(***************************************************************************)
C6_DisputeResolveRoundTrip ==
    \A t \in DOMAIN transactions :
        LET c == transactions[t].client
            d == insert(engine, Transaction("Dispute", c, t, None))
            s == insert(EngineAfter(d), Transaction("Resolve", c, t, None))
        IN  (~transactions[t].disputed /\ ~accounts[c].locked) =>
                /\ d.result = "Ok"
                /\ d.transactions[t].disputed
                /\ s.result = "Ok"
                /\ s.accounts[c].available = accounts[c].available
                /\ s.accounts[c].held = accounts[c].held
                /\ s.accounts[c].total = accounts[c].total
                /\ s.accounts[c].locked = FALSE
                /\ s.transactions[t].disputed = FALSE

\* A Resolve returned Ok for an entry of a nonzero amount, and the owner
\* has funds available and none held.
C6_Witness ==
    /\ LastOk("Resolve")
    /\ unwrap(transactions[last.tx.tx].amount) > 0
    /\ ~transactions[last.tx.tx].disputed
    /\ accounts[last.tx.client].held = 0
    /\ accounts[last.tx.client].available > 0
    /\ ~accounts[last.tx.client].locked

(***************************************************************************)
(* C7: a Dispute, Resolve or Chargeback whose client differs from the      *)
(* client stored on the referenced entry fails with TransactionNotFound,   *)
(* as one for an unknown transaction id does, and changes no entry and no  *)
(* account's available, held, total or locked.                             *)
(***************************************************************************)
C7_ForeignClientNotFound ==
    \A r \in Records :
        (/\ r.variant \in {"Dispute", "Resolve", "Chargeback"}
         /\ \/ r.tx \notin DOMAIN transactions
            \/ transactions[r.tx].client # r.client) =>
            LET o == insert(engine, r)
            IN  /\ o.result = "TransactionNotFound"
                /\ OnlyCreatedAccount(o, r.client)

\* A Chargeback of another client's disputed entry was rejected.
C7_Witness ==
    /\ last.result = "TransactionNotFound"
    /\ last.tx.variant = "Chargeback"
    /\ last.tx.tx \in DOMAIN transactions
    /\ transactions[last.tx.tx].client # last.tx.client
    /\ transactions[last.tx.tx].disputed
    /\ accounts[transactions[last.tx.tx].client].held > 0

(***************************************************************************)
(* C8: a Deposit or Withdrawal whose transaction id is already in the      *)
(* ledger, stored by any client, fails with TransactionAlreadyExist and    *)
(* leaves the stored entry and every account's balances unchanged.         *)
(***************************************************************************)
C8_DuplicateRejected ==
    \A r \in Records :
        (r.variant \in {"Deposit", "Withdrawal"} /\ r.tx \in DOMAIN transactions) =>
            LET o == insert(engine, r)
            IN  /\ o.result = "TransactionAlreadyExist"
                /\ OnlyCreatedAccount(o, r.client)

\* A Deposit reusing the id of another client's withdrawal was rejected.
C8_Witness ==
    /\ last.result = "TransactionAlreadyExist"
    /\ last.tx.variant = "Deposit"
    /\ transactions[last.tx.tx].variant = "Withdrawal"
    /\ transactions[last.tx.tx].client # last.tx.client
    /\ transactions[last.tx.tx].amount # last.tx.amount

(***************************************************************************)
(* C9: a Withdrawal with an unused transaction id on an unlocked account   *)
(* returns Ok iff available >= amount; it then lowers available and total  *)
(* by the amount and leaves held and locked; otherwise it fails with       *)
(* InsufficientFunds and leaves the account unchanged.                     *)
(***************************************************************************)
C9_WithdrawalIffFunds ==
    \A r \in Records :
        (/\ r.variant = "Withdrawal"
         /\ r.tx \notin DOMAIN transactions
         /\ ~AccountOf(r.client).locked) =>
            LET a == AccountOf(r.client)
                amt == unwrap(r.amount)
                o == insert(engine, r)
            IN  IF a.available >= amt
                THEN /\ o.result = "Ok"
                     /\ o.accounts[r.client].available = a.available - amt
                     /\ o.accounts[r.client].total = a.total - amt
                     /\ o.accounts[r.client].held = a.held
                     /\ o.accounts[r.client].locked = a.locked
                ELSE /\ o.result = "InsufficientFunds"
                     /\ o.accounts[r.client] = a
                     /\ o.transactions = transactions

\* A Withdrawal of more than the positive available funds was rejected.
C9_Witness ==
    /\ last.result = "InsufficientFunds"
    /\ accounts[last.tx.client].available > 0
    /\ accounts[last.tx.client].available < unwrap(last.tx.amount)

(***************************************************************************)
(* C10 as stated: after a Chargeback returned Ok, the referenced entry is  *)
(* marked disputed in every later state.                                   *)
(***************************************************************************)
C10_ChargedBackStaysDisputed ==
    \A t \in chargedback : transactions[t].disputed

(***************************************************************************)
(* C10 as amended: a Chargeback that returns Ok clears the disputed flag   *)
(* of the referenced entry, and the flag is false in every later state.    *)
(***************************************************************************)
C10_ChargedBackNeverDisputed ==
    \A t \in chargedback : ~transactions[t].disputed

\* The owner's later Dispute of a charged-back entry was rejected.
C10_Witness ==
    /\ last.tx.variant = "Dispute"
    /\ last.tx.tx \in chargedback
    /\ transactions[last.tx.tx].client = last.tx.client
    /\ last.result = "LockedAccount"

\* The record refers to an entry of the ledger stored for the record's own
\* client.
OwnEntry(r) ==
    /\ r.tx \in DOMAIN transactions
    /\ transactions[r.tx].client = r.client

\* A call that returned an error and changed nothing at all.
NothingChanged(o) ==
    /\ o.transactions = transactions
    /\ o.accounts = accounts

(***************************************************************************)
(* C11: on an unlocked account and an existing entry of the same client,   *)
(* Dispute returns Ok iff the entry is not disputed and otherwise          *)
(* AlreadyDisputed; Resolve and Chargeback return Ok iff the entry is      *)
(* disputed and otherwise NotDisputed; a failing call changes neither the  *)
(* entry nor any account field.                                            *)
(***************************************************************************)
C11_DisputeStateMachine ==
    \A r \in Records :
        (/\ r.variant \in {"Dispute", "Resolve", "Chargeback"}
         /\ OwnEntry(r)
         /\ ~Locked(r.client)) =>
            LET o == insert(engine, r)
                wanted == (r.variant = "Dispute") # transactions[r.tx].disputed
            IN  IF wanted
                THEN /\ o.result = "Ok"
                     /\ o.transactions[r.tx].disputed = (r.variant = "Dispute")
                ELSE /\ o.result = IF r.variant = "Dispute"
                                   THEN "AlreadyDisputed" ELSE "NotDisputed"
                     /\ NothingChanged(o)

\* A Chargeback of an entry that is not in dispute was rejected on an
\* unlocked account with funds.
C11_Witness ==
    /\ last.result = "NotDisputed"
    /\ last.tx.variant = "Chargeback"
    /\ ~Locked(last.tx.client)
    /\ accounts[last.tx.client].available > 0

(***************************************************************************)
(* C12: once an entry has been charged back, no Dispute, Resolve or        *)
(* Chargeback record referring to its transaction id, from any client,     *)
(* returns Ok in any later state.                                          *)
(***************************************************************************)
C12_ChargedBackIsTerminal ==
    \A t \in chargedback : \A r \in Records :
        (r.tx = t /\ r.variant \in {"Dispute", "Resolve", "Chargeback"}) =>
            insert(engine, r).result # "Ok"

\* The owner's second Chargeback of a charged-back entry was rejected.
C12_Witness ==
    /\ last.tx.variant = "Chargeback"
    /\ last.tx.tx \in chargedback
    /\ transactions[last.tx.tx].client = last.tx.client
    /\ last.result # "Ok"

\* The account of client c is in the map accts and locked.
LockedIn(accts, c) == c \in DOMAIN accts /\ accts[c].locked

(***************************************************************************)
(* C13: in every step, an account that is locked stays locked, and an      *)
(* account goes from unlocked to locked exactly when the call is a         *)
(* Chargeback for that client that returns Ok.                             *)
(***************************************************************************)
C13_LockedMonotonicByChargeback ==
    [][\A c \in Clients :
          /\ LockedIn(accounts, c) => LockedIn(accounts', c)
          /\ (~LockedIn(accounts, c) /\ LockedIn(accounts', c))
                <=> (/\ last'.tx.variant = "Chargeback"
                     /\ last'.tx.client = c
                     /\ last'.result = "Ok")]_vars

\* A client was locked by a Chargeback while the other client, with funds,
\* is not locked.
C13_Witness ==
    /\ LastOk("Chargeback")
    /\ Locked(last.tx.client)
    /\ \E c \in DOMAIN accounts : ~accounts[c].locked /\ accounts[c].total > 0

\* The errors of insert that run does not ignore.
AbortErrors ==
    {"LockedAccount", "TransactionAlreadyExist", "InsufficientFunds",
     "AlreadyDisputed", "NotDisputed"}

\* What holds of run between two rows: while it reads, no call of insert
\* has returned an aborting error; once it has returned an error of
\* insert, that error is the result of the last call made.
RunNotPastAnError ==
    /\ run_state.pc = "reading" => last.result \notin AbortErrors
    /\ run_state.result \in AbortErrors =>
            /\ run_state.pc = "returned"
            /\ last.result = run_state.result
            /\ row = [tx |-> last.tx, outcome |-> last.result]

(***************************************************************************)
(* C14: in run, the first record for which insert fails with an error      *)
(* other than TransactionNotFound stops the run: run returns that error    *)
(* and writes nothing, no later record is applied, and every record        *)
(* before it was applied, in input order, to the state the records before  *)
(* it had left.                                                            *)
(***************************************************************************)
C14_FirstErrorStopsRun ==
    [][/\ RunNotPastAnError'
       /\ run_state.pc = "returned" => UNCHANGED vars
       /\ (row' # row /\ is_valid(row'.tx) /\ row'.outcome # "ReadError") =>
            LET o == insert(engine, row'.tx)
            IN  /\ transactions' = o.transactions
                /\ accounts' = o.accounts
                /\ last' = [tx |-> row'.tx, result |-> o.result]
                /\ o.result \in AbortErrors =>
                        run_state' = [pc |-> "returned", result |-> o.result,
                                      output |-> {}]
                /\ o.result \notin AbortErrors => run_state' = run_state]_vars

\* run returned InsufficientFunds for a withdrawal after it had applied a
\* deposit and a dispute to the client's account.
C14_Witness ==
    /\ run_state.pc = "returned"
    /\ run_state.result = "InsufficientFunds"
    /\ row.tx.variant = "Withdrawal"
    /\ accounts[row.tx.client].held > 0

(***************************************************************************)
(* C15: in run, a record for which insert fails with TransactionNotFound   *)
(* does not stop the run, which goes on reading, and every ledger entry    *)
(* and every account's balances and lock flag are as before the record.    *)
(***************************************************************************)
C15_NotFoundIsDiscarded ==
    [][(row' # row /\ row'.outcome = "TransactionNotFound") =>
            /\ run_state' = run_state
            /\ run_state'.pc = "reading"
            /\ transactions' = transactions
            /\ chargedback' = chargedback
            /\ DOMAIN accounts' = (DOMAIN accounts) \cup {row'.tx.client}
            /\ \A c \in DOMAIN accounts : accounts'[c] = accounts[c]
            /\ row'.tx.client \notin DOMAIN accounts =>
                    accounts'[row'.tx.client] = AccountNew(row'.tx.client)]_vars

\* run goes on reading after a Dispute of another client's entry was
\* discarded, the owner's funds untouched.
C15_Witness ==
    /\ run_state.pc = "reading"
    /\ row.outcome = "TransactionNotFound"
    /\ row.tx.variant = "Dispute"
    /\ row.tx.tx \in DOMAIN transactions
    /\ transactions[row.tx.tx].client # row.tx.client
    /\ accounts[transactions[row.tx.tx].client].available > 0

\* The shape constraint, as the input contract states it: an amount is
\* present exactly on a Deposit or a Withdrawal.
ShapeViolated(t) ==
    \/ t.variant \in {"Deposit", "Withdrawal"} /\ t.amount = None
    \/ t.variant \in {"Dispute", "Resolve", "Chargeback"} /\ t.amount # None

(***************************************************************************)
(* C16: in run, a record that violates the shape constraint never reaches  *)
(* insert: it gives no error, the run goes on reading, and neither the     *)
(* account registry (no account is created for its client) nor the ledger  *)
(* changes.                                                                *)
(***************************************************************************)
C16_MalformedRowSkipped ==
    [][(row' # row /\ ShapeViolated(row'.tx) /\ row'.outcome # "ReadError") =>
            /\ row'.outcome = "Skipped"
            /\ run_state' = run_state
            /\ run_state'.pc = "reading"
            /\ UNCHANGED <<transactions, accounts, last, chargedback>>]_vars

\* A Dispute carrying an amount, for the owner's entry, was skipped: the
\* entry is not disputed and nothing is held.
C16_Witness ==
    /\ row.outcome = "Skipped"
    /\ row.tx.variant = "Dispute"
    /\ row.tx.tx \in DOMAIN transactions
    /\ transactions[row.tx.tx].client = row.tx.client
    /\ ~transactions[row.tx.tx].disputed
    /\ unwrap(transactions[row.tx.tx].amount) > 0
    /\ accounts[row.tx.client].held = 0
    /\ run_state.pc = "reading"

\* The amount stored on the ledger entry of transaction id t.
StoredAmount(t) == unwrap(transactions[t].amount)

(***************************************************************************)
(* C17: a Dispute that returns Ok, of an entry made by a Deposit or by a   *)
(* Withdrawal, lowers available by the amount stored on the entry, raises  *)
(* held by it, leaves total and locked, and marks the entry disputed; an   *)
(* amount carried by the Dispute record is never used.                     *)
(***************************************************************************)
C17_DisputeMovesStoredAmount ==
    \A r \in Records :
        LET o == insert(engine, r)
        IN  (r.variant = "Dispute" /\ o.result = "Ok") =>
                LET a == accounts[r.client]
                    b == o.accounts[r.client]
                IN  /\ b.available = a.available - StoredAmount(r.tx)
                    /\ b.held = a.held + StoredAmount(r.tx)
                    /\ b.total = a.total
                    /\ b.locked = a.locked
                    /\ o.transactions[r.tx].disputed
                    /\ ~transactions[r.tx].disputed

\* A Dispute carrying an amount other than the stored one returned Ok for
\* an entry made by a Withdrawal, and held is the stored amount.
C17_Witness ==
    /\ LastOk("Dispute")
    /\ last.tx.amount # None
    /\ last.tx.amount # transactions[last.tx.tx].amount
    /\ transactions[last.tx.tx].variant = "Withdrawal"
    /\ StoredAmount(last.tx.tx) > 0
    /\ accounts[last.tx.client].held = StoredAmount(last.tx.tx)

(***************************************************************************)
(* C18: a Chargeback that returns Ok lowers total and held by the amount   *)
(* stored on the entry, leaves available and sets locked; and a Deposit,   *)
(* a Dispute of it and a Chargeback of it, for a client with no other      *)
(* record, leave available = held = total = 0 and locked = true.           *)
(***************************************************************************)
C18_ChargebackRemovesStoredAmount ==
    /\ \A r \in Records :
        LET o == insert(engine, r)
        IN  (r.variant = "Chargeback" /\ o.result = "Ok") =>
                LET a == accounts[r.client]
                    b == o.accounts[r.client]
                IN  /\ b.total = a.total - StoredAmount(r.tx)
                    /\ b.held = a.held - StoredAmount(r.tx)
                    /\ b.available = a.available
                    /\ b.locked
                    /\ ~a.locked
    /\ \A c \in Clients \ DOMAIN accounts : \A t \in TxIds \ DOMAIN transactions :
        \A amt \in Amounts :
            LET d == insert(engine, Transaction("Deposit", c, t, Some(amt)))
                s == insert(EngineAfter(d), Transaction("Dispute", c, t, None))
                k == insert(EngineAfter(s), Transaction("Chargeback", c, t, None))
            IN  /\ d.result = "Ok" /\ s.result = "Ok" /\ k.result = "Ok"
                /\ k.accounts[c] = [client |-> c, available |-> 0, held |-> 0,
                                    total |-> 0, locked |-> TRUE]

\* A Chargeback returned Ok and left the client locked with everything at
\* zero after a deposit of a nonzero amount, the other client not yet seen.
C18_Witness ==
    /\ LastOk("Chargeback")
    /\ StoredAmount(last.tx.tx) > 0
    /\ transactions[last.tx.tx].variant = "Deposit"
    /\ accounts[last.tx.client].available = 0
    /\ accounts[last.tx.client].held = 0
    /\ accounts[last.tx.client].total = 0
    /\ accounts[last.tx.client].locked
    /\ DOMAIN accounts = {last.tx.client}

(***************************************************************************)
(* C19: a Deposit on an unlocked account with a transaction id not in the  *)
(* ledger returns Ok, raises available and total by the amount, leaves     *)
(* held and locked, and stores an entry with that id, client and amount    *)
(* and disputed = false.                                                   *)
(***************************************************************************)
C19_DepositApplies ==
    \A r \in Records :
        (/\ r.variant = "Deposit"
         /\ r.tx \notin DOMAIN transactions
         /\ ~AccountOf(r.client).locked) =>
            LET a == AccountOf(r.client)
                amt == unwrap(r.amount)
                o == insert(engine, r)
            IN  /\ o.result = "Ok"
                /\ o.accounts[r.client].available = a.available + amt
                /\ o.accounts[r.client].total = a.total + amt
                /\ o.accounts[r.client].held = a.held
                /\ o.accounts[r.client].locked = FALSE
                /\ DOMAIN o.transactions = (DOMAIN transactions) \cup {r.tx}
                /\ o.transactions[r.tx].tx = r.tx
                /\ o.transactions[r.tx].client = r.client
                /\ o.transactions[r.tx].amount = Some(amt)
                /\ o.transactions[r.tx].disputed = FALSE
                /\ \A t \in DOMAIN transactions : o.transactions[t] = transactions[t]

\* A Deposit returned Ok on an account that has funds held in dispute.
C19_Witness ==
    /\ LastOk("Deposit")
    /\ unwrap(last.tx.amount) > 0
    /\ accounts[last.tx.client].held > 0
    /\ ~transactions[last.tx.tx].disputed

(***************************************************************************)
(* C20: the ledger holds exactly the accepted Deposit and Withdrawal       *)
(* records: in every step an entry appears only for the transaction id of  *)
(* a Deposit or Withdrawal that returns Ok, and does appear then; a        *)
(* rejected one stores nothing, so that a Dispute of its id gives          *)
(* TransactionNotFound; and an entry once stored is never removed and      *)
(* keeps its client and amount.                                            *)
(***************************************************************************)
C20_LedgerIsAcceptedRecords ==
    [][/\ \A t \in DOMAIN transactions :
            /\ t \in DOMAIN transactions'
            /\ transactions'[t].client = transactions[t].client
            /\ transactions'[t].amount = transactions[t].amount
            /\ transactions'[t].variant = transactions[t].variant
       /\ \A t \in (DOMAIN transactions') \ (DOMAIN transactions) :
            /\ last'.tx.variant \in {"Deposit", "Withdrawal"}
            /\ last'.result = "Ok"
            /\ transactions'[t] = last'.tx
            /\ last'.tx.tx = t
       /\ (last'.tx.variant \in {"Deposit", "Withdrawal"} /\ last'.result = "Ok") =>
            last'.tx.tx \in DOMAIN transactions'
       /\ (last'.tx.variant \in {"Deposit", "Withdrawal"} /\ last'.result # "Ok") =>
            transactions' = transactions
       /\ (/\ last'.tx.variant \in {"Deposit", "Withdrawal"}
           /\ last'.result \in {"InsufficientFunds", "LockedAccount"}) =>
            /\ last'.tx.tx \notin DOMAIN transactions'
            /\ \A c \in Clients :
                    insert([transactions |-> transactions', accounts |-> accounts'],
                           Transaction("Dispute", c, last'.tx.tx, None)).result
                        = "TransactionNotFound"]_vars

\* A Withdrawal was rejected for insufficient funds and its id is not in
\* the ledger, which holds a disputed entry of the client.
C20_Witness ==
    /\ last.tx.variant = "Withdrawal"
    /\ last.result = "InsufficientFunds"
    /\ last.tx.tx \notin DOMAIN transactions
    /\ \E t \in DOMAIN transactions :
            transactions[t].client = last.tx.client /\ transactions[t].disputed

\* The step passes the row row' to insert: the row is new, has the shape
\* the input contract asks for, and was deserialized.
RowReachesInsert ==
    /\ row' # row
    /\ ~ShapeViolated(row'.tx)
    /\ row'.outcome # "ReadError"

(***************************************************************************)
(* C21: in every step of run, the registry gains an account exactly for    *)
(* the client of a shape-valid record passed to insert, whether insert     *)
(* then fails or not; a new account starts from available = held = total   *)
(* = 0 and locked = false; no account is ever deleted; and the output of   *)
(* a run that returns Ok has exactly one row per account.                  *)
(***************************************************************************)
C21_AccountPerClientSeen ==
    [][/\ DOMAIN accounts \subseteq DOMAIN accounts'
       /\ IF RowReachesInsert
          THEN LET c == row'.tx.client
               IN  /\ DOMAIN accounts' = (DOMAIN accounts) \cup {c}
                   /\ last' = [tx |-> row'.tx, result |-> row'.outcome]
                   /\ c \notin DOMAIN accounts =>
                        LET gained == IF row'.outcome = "Ok" /\ row'.tx.variant = "Deposit"
                                      THEN unwrap(row'.tx.amount) ELSE 0
                        IN  accounts'[c] = [client |-> c, available |-> gained,
                                            held |-> 0, total |-> gained,
                                            locked |-> FALSE]
          ELSE DOMAIN accounts' = DOMAIN accounts
       /\ (run_state'.pc = "returned" /\ run_state'.result = "Ok") =>
            /\ \A c \in DOMAIN accounts' :
                    {a \in run_state'.output : a.client = c} = {accounts'[c]}
            /\ \A a \in run_state'.output : a.client \in DOMAIN accounts'
            /\ Cardinality(run_state'.output) = Cardinality(DOMAIN accounts')]_vars

\* run returned Ok and wrote two rows, one of them the untouched account
\* of a client whose only records failed with TransactionNotFound.
C21_Witness ==
    /\ run_state.pc = "returned"
    /\ run_state.result = "Ok"
    /\ Cardinality(run_state.output) = 2
    /\ last.result = "TransactionNotFound"
    /\ accounts[last.tx.client] = AccountNew(last.tx.client)
    /\ \A t \in DOMAIN transactions : transactions[t].client # last.tx.client
    /\ DOMAIN transactions # {}

(***************************************************************************)
(* C22: a call of insert that returns an error leaves the engine as it     *)
(* was, except that it may have created the zero, unlocked account of the  *)
(* record's client: no existing account field changes, no entry is added,  *)
(* no disputed flag changes.                                               *)
(***************************************************************************)
C22_ErrorChangesNothing ==
    \A r \in Records :
        LET o == insert(engine, r)
        IN  o.result # "Ok" => OnlyCreatedAccount(o, r.client)

\* A Withdrawal by a client not seen before was rejected for insufficient
\* funds: its account was created at zero, the other client's funds and
\* disputed entry are as they were.
C22_Witness ==
    /\ last.tx.variant = "Withdrawal"
    /\ last.result = "InsufficientFunds"
    /\ accounts[last.tx.client] = AccountNew(last.tx.client)
    /\ \E t \in DOMAIN transactions :
            /\ transactions[t].disputed
            /\ accounts[transactions[t].client].held > 0

\* The sum of the amounts stored on the entries with ids in S.
RECURSIVE SumStored(_)
SumStored(S) ==
    IF S = {} THEN 0
    ELSE LET t == CHOOSE x \in S : TRUE
         IN  StoredAmount(t) + SumStored(S \ {t})

\* The ids of the entries of client c that are marked disputed.
DisputedOf(c) ==
    {t \in DOMAIN transactions : transactions[t].client = c /\ transactions[t].disputed}

(***************************************************************************)
(* C23: in every reachable state, each account's held is the sum of the    *)
(* amounts stored on the ledger entries of its client that are marked      *)
(* disputed.                                                               *)
(***************************************************************************)
C23_HeldIsSumOfDisputed ==
    \A c \in DOMAIN accounts : accounts[c].held = SumStored(DisputedOf(c))

\* A client has two entries in dispute, of nonzero amounts, after a
\* Dispute that returned Ok.
C23_Witness ==
    /\ LastOk("Dispute")
    /\ Cardinality(DisputedOf(last.tx.client)) = 2
    /\ \A t \in DisputedOf(last.tx.client) : StoredAmount(t) > 0

(***************************************************************************)
(* C24: a record carrying client id c changes no field of an account of    *)
(* another client and no disputed flag of an entry of another client.      *)
(***************************************************************************)
C24_OtherClientsUntouched ==
    \A r \in Records :
        LET o == insert(engine, r)
        IN  /\ \A d \in (DOMAIN accounts) \ {r.client} : o.accounts[d] = accounts[d]
            /\ \A t \in DOMAIN transactions :
                    transactions[t].client # r.client => o.transactions[t] = transactions[t]

\* A Resolve returned Ok for one client while the other client has an
\* entry in dispute and funds held.
C24_Witness ==
    /\ LastOk("Resolve")
    /\ \E t \in DOMAIN transactions :
            /\ transactions[t].client # last.tx.client
            /\ transactions[t].disputed
            /\ accounts[transactions[t].client].held > 0

====
